---- MODULE Spec2Model ----
(* Navigation / selection state machine of the FileShare frontend (App,      *)
(* SelectionToolbar, FileTableRow) together with the requests it has in      *)
(* flight and the backend directory tree those requests read and change.     *)
EXTENDS Integers, Sequences, FiniteSets, Bags, TLC

VARIABLES
    currentDirectoryId,    \* App state: string | null
    breadcrumbPath,        \* App state: BreadcrumbItem[]
    files,                 \* App state: ids of the displayed FileMetadata[]
    directories,           \* App state: ids of the displayed DirectoryMetadata[]
    selectionMode,         \* App state
    selectedFileIds,       \* App state: string[]
    selectedDirectoryIds,  \* App state: string[]
    deleting,              \* SelectionToolbar state
    moving,                \* SelectionToolbar state
    metaReqs,              \* GET /api/directories/:id in flight, with the closure of handleNavigate
    listReqs,              \* GET /api/files?parent_directory_id= in flight (fetchFiles)
    delReq,                \* POST /api/bulk-delete in flight, with the closure of handleBulkDelete
    moveOp,                \* the suspended handleBulkMove, if any
    moveReqs,              \* PATCH move requests in flight
    srvParent,             \* backend: parent of every file and directory
    lastToast,             \* the toast raised by the latest step, "none" if it raised none
    moveDropdownOpen,      \* SelectionToolbar state
    isNewFolderModalOpen,  \* App state
    folderName,            \* NewFolderModal state: the input's value, a sequence of characters
    creating,              \* NewFolderModal state
    createReqs,            \* POST /api/directories in flight, with the closure of handleSubmit
    createdNames,          \* backend: the folder names created during the session
    touching,              \* the row under the finger, if any
    longPressTimerRef,     \* per row: its long-press timer is pending
    longPressTriggeredRef, \* per row: the ref of that name
    selectedFiles,         \* FileUpload state: File[], as file names
    uploading,             \* FileUpload state
    uploadRun,             \* the suspended handleUpload, if any
    uploadReqs,            \* upload requests in flight
    rowDeleting            \* the rows whose handleDelete is suspended on its DELETE request

vars == <<currentDirectoryId, breadcrumbPath, files, directories, selectionMode,
          selectedFileIds, selectedDirectoryIds, deleting, moving, metaReqs,
          listReqs, delReq, moveOp, moveReqs, srvParent, lastToast,
          moveDropdownOpen, isNewFolderModalOpen, folderName, creating,
          createReqs, createdNames, touching, longPressTimerRef,
          longPressTriggeredRef, selectedFiles, uploading, uploadRun, uploadReqs,
          rowDeleting>>

navVars == <<currentDirectoryId, breadcrumbPath>>
listingVars == <<files, directories>>
selVars == <<selectionMode, selectedFileIds, selectedDirectoryIds>>
bulkVars == <<deleting, moving, delReq, moveOp, moveReqs>>
modalVars == <<isNewFolderModalOpen, folderName, creating, createReqs, createdNames>>
touchVars == <<touching, longPressTimerRef, longPressTriggeredRef>>
uploadVars == <<selectedFiles, uploading, uploadRun, uploadReqs>>
extVars == <<moveDropdownOpen, modalVars, touchVars, uploadVars, rowDeleting>>

----------------------------------------------------------------------------
(* Bounds *)

MaxInFlight == 2   \* requests in flight at once, of all kinds together

MaxNameLen == 255  \* the longest folder name handleSubmit lets through

----------------------------------------------------------------------------
(* The backend content the session starts with *)

NULL == "null"     \* the root directory id
GONE == "gone"     \* a deleted item

Dirs == {"d1", "d2"}
Files == {"f1"}
Items == Dirs \cup Files

\* two folders and one file, all in the root
InitParent == [i \in Items |-> NULL]

NameOf(d) == "name_" \o d

----------------------------------------------------------------------------
(* Pure helpers *)

Range(s) == {s[i] : i \in 1..Len(s)}

PathIds(path) == {path[i].id : i \in 1..Len(path)}

\* a search that never finds the id
findIndex_NeverFinds(path, id) == 0

\* Array.prototype.findIndex, 1-based; 0 when absent
findIndex(path, id) ==
    IF \E i \in 1..Len(path) : path[i].id = id
    THEN CHOOSE i \in 1..Len(path) :
            path[i].id = id /\ \A j \in 1..(i - 1) : path[j].id # id
    ELSE 0

\* an off-by-one slice that drops the entry navigated to
slice_DropsTarget(path, k) == SubSeq(path, 1, k - 1)

\* breadcrumbPath.slice(0, existingIndex + 1), k being the 1-based position
slice(path, k) == SubSeq(path, 1, k)

\* Array.prototype.filter((x) => x !== id)
RECURSIVE filterOut(_, _)
filterOut(s, id) ==
    IF s = <<>> THEN <<>>
    ELSE IF Head(s) = id THEN filterOut(Tail(s), id)
    ELSE <<Head(s)>> \o filterOut(Tail(s), id)

\* a toggle that empties the whole array when it removes an id
newSelection_RemoveAll(prev, id) ==
    IF id \in Range(prev) THEN <<>> ELSE Append(prev, id)

\* prev.includes(id) ? prev.filter((x) => x !== id) : [...prev, id]
newSelection(prev, id) ==
    IF id \in Range(prev) THEN filterOut(prev, id) ELSE Append(prev, id)

\* requests in flight are kept as bags: the network orders nothing
AddReq(reqs, r) == reqs (+) SetToBag({r})
DropReq(reqs, r) == reqs (-) SetToBag({r})

\* History kept with each suspended handleNavigate: a later handleNavigate
\* call has been made since it suspended. The program does not read it.
Supersede(reqs) ==
    [q \in {[r EXCEPT !.superseded = TRUE] : r \in BagToSet(reqs)} |->
        CopiesIn(q, reqs) + CopiesIn([q EXCEPT !.superseded = FALSE], reqs)]

----------------------------------------------------------------------------
(* Backend *)

Exists(par, i) == par[i] # GONE

\* d is i itself or one of its ancestors
RECURSIVE IsSelfOrAncestor(_, _, _, _)
IsSelfOrAncestor(par, d, i, fuel) ==
    IF i = d THEN TRUE
    ELSE IF fuel = 0 \/ i \notin Items \/ par[i] \in {NULL, GONE} THEN FALSE
    ELSE IsSelfOrAncestor(par, d, par[i], fuel - 1)

\* GET /api/files?parent_directory_id=dir
ListedFiles(par, dir) == {f \in Files : par[f] = dir}
ListedDirectories(par, dir) == {d \in Dirs : par[d] = dir}

\* POST /api/bulk-delete: directories are deleted with everything below them
AfterBulkDelete(par, fileIds, dirIds) ==
    [i \in Items |->
        IF \/ i \in fileIds \cup dirIds
           \/ \E d \in dirIds : IsSelfOrAncestor(par, d, i, Cardinality(Items))
        THEN GONE ELSE par[i]]

\* PATCH /api/files/:id or /api/directories/:id is accepted by the backend
MoveAccepted(par, item, target) ==
    /\ Exists(par, item)
    /\ Exists(par, target)
    /\ ~IsSelfOrAncestor(par, item, target, Cardinality(Items))

----------------------------------------------------------------------------
(* Initial state: App has mounted, its effect has called fetchFiles(null) *)

NoDelReq == [active |-> FALSE, fileIds |-> <<>>, dirIds |-> <<>>, dir |-> NULL]
NoMoveOp == [phase |-> "idle", fileIds |-> <<>>, dirIds |-> <<>>,
             target |-> NULL, dir |-> NULL]

NoUploadRun == [active |-> FALSE, files |-> <<>>, i |-> 0, completed |-> 0,
                failed |-> 0, issued |-> <<>>, dir |-> NULL]

Init ==
    /\ currentDirectoryId = NULL
    /\ breadcrumbPath = <<>>
    /\ files = {}
    /\ directories = {}
    /\ selectionMode = FALSE
    /\ selectedFileIds = <<>>
    /\ selectedDirectoryIds = <<>>
    /\ deleting = FALSE
    /\ moving = FALSE
    /\ metaReqs = EmptyBag
    /\ listReqs = SetToBag({[dir |-> NULL]})
    /\ delReq = NoDelReq
    /\ moveOp = NoMoveOp
    /\ moveReqs = {}
    /\ srvParent = InitParent
    /\ lastToast = "none"
    /\ moveDropdownOpen = FALSE
    /\ isNewFolderModalOpen = FALSE
    /\ folderName = <<>>
    /\ creating = FALSE
    /\ createReqs = {}
    /\ createdNames = {}
    /\ touching = NULL
    /\ longPressTimerRef = [i \in Items |-> FALSE]
    /\ longPressTriggeredRef = [i \in Items |-> FALSE]
    /\ selectedFiles = <<>>
    /\ uploading = FALSE
    /\ uploadRun = NoUploadRun
    /\ uploadReqs = {}
    /\ rowDeleting = {}

----------------------------------------------------------------------------
(* fetchFiles and the effect that calls it *)

\* fetchFiles(dir): the request leaves, the handler suspends on it
fetchFiles(reqs, dir) == AddReq(reqs, [dir |-> dir])

\* useEffect([currentDirectoryId, fetchFiles]): runs when the id has changed
effectFetch(reqs, old, new) == IF new # old THEN fetchFiles(reqs, new) ELSE reqs

\* the requests in flight, and room for one more
InFlight == BagCardinality(metaReqs) + BagCardinality(listReqs)
              + (IF delReq.active THEN 1 ELSE 0) + Cardinality(moveReqs)
              + Cardinality(createReqs) + (IF uploadRun.active THEN 1 ELSE 0)
              + Cardinality(rowDeleting)
Room == InFlight < MaxInFlight

\* the rows of the items that are no longer listed unmount: their cleanup
\* clears the long-press timer, and a row mounted later starts with fresh refs
Unmounted(listed) ==
    /\ touching' = IF touching \in listed THEN touching ELSE NULL
    /\ longPressTimerRef' = [i \in Items |-> i \in listed /\ longPressTimerRef[i]]
    /\ longPressTriggeredRef' = [i \in Items |-> i \in listed /\ longPressTriggeredRef[i]]

\* a response that is merged into the listing on display
ListingResponseOk_Merges(r) ==
    /\ BagIn(r, listReqs)
    /\ files' = files \cup ListedFiles(srvParent, r.dir)
    /\ directories' = directories \cup ListedDirectories(srvParent, r.dir)
    /\ listReqs' = DropReq(listReqs, r)
    /\ lastToast' = "none"
    /\ UNCHANGED <<navVars, selVars, bulkVars, metaReqs, srvParent>>
    /\ UNCHANGED extVars

\* fetchFiles: the response is ok, the listing is replaced by what it holds
ListingResponseOk(r) ==
    /\ BagIn(r, listReqs)
    /\ files' = ListedFiles(srvParent, r.dir)
    /\ directories' = ListedDirectories(srvParent, r.dir)
    /\ listReqs' = DropReq(listReqs, r)
    /\ lastToast' = "none"
    /\ UNCHANGED <<navVars, selVars, bulkVars, metaReqs, srvParent>>
    /\ Unmounted(ListedFiles(srvParent, r.dir) \cup ListedDirectories(srvParent, r.dir))
    /\ UNCHANGED <<moveDropdownOpen, modalVars, uploadVars, rowDeleting>>

\* a failure that sends the session back to the root
ListingResponseFail_Reverts(r) ==
    /\ BagIn(r, listReqs)
    /\ lastToast' = "load_error"
    /\ listReqs' = DropReq(listReqs, r)
    /\ currentDirectoryId' = NULL
    /\ breadcrumbPath' = <<>>
    /\ UNCHANGED <<listingVars, selVars, bulkVars, metaReqs, srvParent>>
    /\ UNCHANGED extVars

\* fetchFiles: the request failed or was not ok
ListingResponseFail(r) ==
    /\ BagIn(r, listReqs)
    /\ lastToast' = "load_error"
    /\ listReqs' = DropReq(listReqs, r)
    /\ UNCHANGED <<navVars, listingVars, selVars, bulkVars, metaReqs, srvParent>>
    /\ UNCHANGED extVars

----------------------------------------------------------------------------
(* handleNavigate *)

\* a reset that forgets the breadcrumb
NavigateRoot_KeepsPath ==
    /\ currentDirectoryId # NULL => Room
    /\ currentDirectoryId' = NULL
    /\ breadcrumbPath' = breadcrumbPath
    /\ listReqs' = effectFetch(listReqs, currentDirectoryId, NULL)
    /\ metaReqs' = Supersede(metaReqs)
    /\ lastToast' = "none"
    /\ UNCHANGED <<listingVars, selVars, bulkVars, srvParent>>
    /\ UNCHANGED extVars

\* handleNavigate(null): Home in the breadcrumb, All Files in the sidebar
NavigateRoot ==
    /\ currentDirectoryId # NULL => Room
    /\ currentDirectoryId' = NULL
    /\ breadcrumbPath' = <<>>
    /\ listReqs' = effectFetch(listReqs, currentDirectoryId, NULL)
    /\ metaReqs' = Supersede(metaReqs)
    /\ lastToast' = "none"
    /\ UNCHANGED <<listingVars, selVars, bulkVars, srvParent>>
    /\ UNCHANGED extVars

\* the directory ids a gesture can pass to handleNavigate: breadcrumb entries
\* and the directory rows of the displayed listing
NavigableIds == PathIds(breadcrumbPath) \cup directories

\* a step back that leaves the breadcrumb as it is
NavigateBack_KeepsPath(d) ==
    /\ d \in NavigableIds
    /\ findIndex(breadcrumbPath, d) > 0
    /\ currentDirectoryId # d => Room
    /\ breadcrumbPath' = breadcrumbPath
    /\ currentDirectoryId' = d
    /\ listReqs' = effectFetch(listReqs, currentDirectoryId, d)
    /\ metaReqs' = Supersede(metaReqs)
    /\ lastToast' = "none"
    /\ UNCHANGED <<listingVars, selVars, bulkVars, srvParent>>
    /\ UNCHANGED extVars

\* handleNavigate(d), d found in breadcrumbPath: truncate
NavigateBack(d) ==
    /\ d \in NavigableIds
    /\ findIndex(breadcrumbPath, d) > 0
    /\ currentDirectoryId # d => Room
    /\ breadcrumbPath' = slice(breadcrumbPath, findIndex(breadcrumbPath, d))
    /\ currentDirectoryId' = d
    /\ listReqs' = effectFetch(listReqs, currentDirectoryId, d)
    /\ metaReqs' = Supersede(metaReqs)
    /\ lastToast' = "none"
    /\ UNCHANGED <<listingVars, selVars, bulkVars, srvParent>>
    /\ UNCHANGED extVars

\* handleNavigate(d), d not in breadcrumbPath: request its metadata and suspend
NavigateForward(d) ==
    /\ d \in NavigableIds
    /\ findIndex(breadcrumbPath, d) = 0
    /\ Room
    /\ metaReqs' = AddReq(Supersede(metaReqs),
                        [target |-> d, path |-> breadcrumbPath, superseded |-> FALSE])
    /\ lastToast' = "none"
    /\ UNCHANGED <<navVars, listingVars, selVars, bulkVars, listReqs, srvParent>>
    /\ UNCHANGED extVars

\* a resumption that sets the current directory and forgets the breadcrumb
MetaResponseOk_CurrentOnly(r) ==
    /\ BagIn(r, metaReqs)
    /\ Exists(srvParent, r.target)
    /\ breadcrumbPath' = breadcrumbPath
    /\ currentDirectoryId' = r.target
    /\ listReqs' = effectFetch(listReqs, currentDirectoryId, r.target)
    /\ metaReqs' = DropReq(metaReqs, r)
    /\ lastToast' = "none"
    /\ UNCHANGED <<listingVars, selVars, bulkVars, srvParent>>
    /\ UNCHANGED extVars

\* handleNavigate resumes with the metadata: append to the path it captured
MetaResponseOk(r) ==
    /\ BagIn(r, metaReqs)
    /\ Exists(srvParent, r.target)
    /\ breadcrumbPath' = Append(r.path, [id |-> r.target, name |-> NameOf(r.target)])
    /\ currentDirectoryId' = r.target
    /\ listReqs' = effectFetch(listReqs, currentDirectoryId, r.target)
    /\ metaReqs' = DropReq(metaReqs, r)
    /\ lastToast' = "none"
    /\ UNCHANGED <<listingVars, selVars, bulkVars, srvParent>>
    /\ UNCHANGED extVars

\* handleNavigate resumes in its catch block
MetaResponseFail(r) ==
    /\ BagIn(r, metaReqs)
    /\ lastToast' = "navigate_error"
    /\ metaReqs' = DropReq(metaReqs, r)
    /\ UNCHANGED <<navVars, listingVars, selVars, bulkVars, listReqs, srvParent>>
    /\ UNCHANGED extVars

----------------------------------------------------------------------------
(* Selection *)

\* an auto-exit test that looks at the toggled set only
autoExit_OwnSetOnly(newSel, otherIds) == Len(newSel) = 0

\* newSelection.length === 0 && <other set>.length === 0
autoExit(newSel, otherIds) == Len(newSel) = 0 /\ Len(otherIds) = 0

\* handleSelectionToggle(id, isDirectory): what it does to the selection.
\* setSelectionMode(true) comes first when the mode is off; the updater's
\* setSelectionMode(false) comes after it and wins.
SelectionToggled(id, isDirectory) ==
    IF isDirectory
    THEN /\ selectedDirectoryIds' = newSelection(selectedDirectoryIds, id)
         /\ selectedFileIds' = selectedFileIds
         /\ selectionMode' =
              ~autoExit(newSelection(selectedDirectoryIds, id), selectedFileIds)
    ELSE /\ selectedFileIds' = newSelection(selectedFileIds, id)
         /\ selectedDirectoryIds' = selectedDirectoryIds
         /\ selectionMode' =
              ~autoExit(newSelection(selectedFileIds, id), selectedDirectoryIds)

\* handleSelectionToggle(id, isDirectory), from a row or its checkbox
handleSelectionToggle(id, isDirectory) ==
    /\ id \in (IF isDirectory THEN directories ELSE files)
    /\ SelectionToggled(id, isDirectory)
    /\ lastToast' = "none"
    /\ UNCHANGED <<navVars, listingVars, bulkVars, metaReqs, listReqs, srvParent>>
    /\ UNCHANGED extVars

totalSelected == Len(selectedFileIds) + Len(selectedDirectoryIds)
isBusy == deleting \/ moving

\* a clear that forgets the directory ids
ClearedSelection_FilesOnly ==
    /\ selectionMode' = FALSE
    /\ selectedFileIds' = <<>>
    /\ selectedDirectoryIds' = selectedDirectoryIds

\* handleClearSelection: the state it leaves
ClearedSelection ==
    /\ selectionMode' = FALSE
    /\ selectedFileIds' = <<>>
    /\ selectedDirectoryIds' = <<>>

\* handleClearSelection, from the toolbar's Cancel button
handleClearSelection ==
    /\ totalSelected > 0
    /\ ~isBusy
    /\ ClearedSelection
    /\ lastToast' = "none"
    /\ UNCHANGED <<navVars, listingVars, bulkVars, metaReqs, listReqs, srvParent>>
    /\ UNCHANGED extVars

----------------------------------------------------------------------------
(* SelectionToolbar: bulk delete *)

\* handleBulkDelete, window.confirm answered with Cancel: it returns
BulkDeleteDeclined ==
    /\ totalSelected > 0
    /\ ~isBusy
    /\ lastToast' = "none"
    /\ UNCHANGED <<navVars, listingVars, selVars, bulkVars, metaReqs, listReqs, srvParent>>
    /\ UNCHANGED extVars

\* a request that carries the file ids only
BulkDeleteStart_FilesOnly ==
    /\ totalSelected > 0
    /\ ~isBusy
    /\ Room
    /\ deleting' = TRUE
    /\ delReq' = [active |-> TRUE, fileIds |-> selectedFileIds,
                  dirIds |-> <<>>, dir |-> currentDirectoryId]
    /\ lastToast' = "none"
    /\ UNCHANGED <<navVars, listingVars, selVars, moving, moveOp, moveReqs,
                   metaReqs, listReqs, srvParent>>
    /\ UNCHANGED extVars

\* handleBulkDelete up to its await: the confirm dialog is accepted and the
\* request leaves with the ids and the onDeleteSuccess of this render
BulkDeleteStart ==
    /\ totalSelected > 0
    /\ ~isBusy
    /\ Room
    /\ deleting' = TRUE
    /\ delReq' = [active |-> TRUE, fileIds |-> selectedFileIds,
                  dirIds |-> selectedDirectoryIds, dir |-> currentDirectoryId]
    /\ lastToast' = "none"
    /\ UNCHANGED <<navVars, listingVars, selVars, moving, moveOp, moveReqs,
                   metaReqs, listReqs, srvParent>>
    /\ UNCHANGED extVars

\* handleBulkDelete resumes with a response: toast, onDeleteSuccess (which is
\* fetchFiles() of the render that started it), onClearSelection, finally
BulkDeleteOk ==
    /\ delReq.active
    /\ srvParent' = AfterBulkDelete(srvParent, Range(delReq.fileIds), Range(delReq.dirIds))
    /\ lastToast' = "delete_success"
    /\ listReqs' = fetchFiles(listReqs, delReq.dir)
    /\ ClearedSelection
    /\ deleting' = FALSE
    /\ delReq' = NoDelReq
    /\ UNCHANGED <<navVars, listingVars, moving, moveOp, moveReqs, metaReqs>>
    /\ UNCHANGED extVars

\* a catch block that also clears the selection
BulkDeleteFail_ClearsSelection ==
    /\ delReq.active
    /\ lastToast' = "delete_error"
    /\ ClearedSelection
    /\ deleting' = FALSE
    /\ delReq' = NoDelReq
    /\ UNCHANGED <<navVars, listingVars, moving, moveOp, moveReqs,
                   metaReqs, listReqs, srvParent>>
    /\ UNCHANGED extVars

\* handleBulkDelete resumes in its catch block, then finally
BulkDeleteFail ==
    /\ delReq.active
    /\ lastToast' = "delete_error"
    /\ deleting' = FALSE
    /\ delReq' = NoDelReq
    /\ UNCHANGED <<navVars, listingVars, selVars, moving, moveOp, moveReqs,
                   metaReqs, listReqs, srvParent>>
    /\ UNCHANGED extVars

----------------------------------------------------------------------------
(* SelectionToolbar: bulk move *)

\* the folders the toolbar offers as move targets
availableFolders == directories
moveTargets == {d \in availableFolders : d \notin Range(selectedDirectoryIds)}

\* selectedIds.map((id) => fileApi.moveX(id, target)): one request per id
MoveRequests(ids, target) == {[item |-> id, target |-> target, live |-> TRUE] : id \in Range(ids)}

\* handleBulkMove(target) up to its first suspension. The handler tests
\* neither its target nor the selection. Promise.all of no requests settles
\* without yielding to another event, so with no files selected the handler
\* is already waiting on the directory requests.
handleBulkMove(target) ==
    /\ Room
    /\ moving' = TRUE
    /\ moveOp' = [phase |-> IF Len(selectedFileIds) > 0 THEN "files" ELSE "dirs",
                  fileIds |-> selectedFileIds, dirIds |-> selectedDirectoryIds,
                  target |-> target, dir |-> currentDirectoryId]
    /\ moveReqs' = moveReqs \cup
                     (IF Len(selectedFileIds) > 0
                      THEN MoveRequests(selectedFileIds, target)
                      ELSE MoveRequests(selectedDirectoryIds, target))
    /\ lastToast' = "none"
    /\ UNCHANGED <<navVars, listingVars, selVars, deleting, delReq,
                   metaReqs, listReqs, srvParent>>
    /\ moveDropdownOpen' = FALSE
    /\ UNCHANGED <<modalVars, touchVars, uploadVars, rowDeleting>>

\* a click on an entry of the toolbar's move dropdown: the toolbar is
\* rendered, its dropdown can be opened and lists moveTargets
BulkMoveStart(target) ==
    /\ totalSelected > 0
    /\ ~isBusy
    /\ target \in moveTargets
    /\ handleBulkMove(target)

\* handleBulkMove called as a function, with any folder as its target
BulkMoveCall(target) ==
    /\ totalSelected > 0
    /\ ~isBusy
    /\ target \in availableFolders
    /\ handleBulkMove(target)

\* the desktop toolbar's "Move to folder" button: it is rendered with the
\* toolbar when there is a move target, and disabled while busy
ToggleMoveDropdown ==
    /\ totalSelected > 0
    /\ moveTargets # {}
    /\ ~isBusy
    /\ moveDropdownOpen' = ~moveDropdownOpen
    /\ lastToast' = "none"
    /\ UNCHANGED <<navVars, listingVars, selVars, bulkVars, metaReqs, listReqs, srvParent,
                   modalVars, touchVars, uploadVars, rowDeleting>>

\* handleClickOutside: a mousedown outside the rendered dropdown closes it.
\* A gesture made with the mouse is this step followed by the gesture's own;
\* a button activated from the keyboard gets its click without a mousedown.
handleClickOutside ==
    /\ totalSelected > 0
    /\ moveTargets # {}
    /\ moveDropdownOpen
    /\ moveDropdownOpen' = FALSE
    /\ lastToast' = "none"
    /\ UNCHANGED <<navVars, listingVars, selVars, bulkVars, metaReqs, listReqs, srvParent,
                   modalVars, touchVars, uploadVars, rowDeleting>>

\* a click on an entry of the open desktop dropdown: the entries are the
\* moveTargets and carry no disabled attribute
DropdownMoveClick(target) ==
    /\ totalSelected > 0
    /\ moveDropdownOpen
    /\ target \in moveTargets
    /\ handleBulkMove(target)

\* the requests the suspended handleBulkMove still waits for, r answered
StillAwaited(r) == {q \in moveReqs \ {r} : q.live}

\* handleBulkMove after its last await: toast, onDeleteSuccess, onClearSelection, finally
BulkMoveDone(r) ==
    /\ moveReqs' = moveReqs \ {r}
    /\ lastToast' = "move_success"
    /\ listReqs' = fetchFiles(listReqs, moveOp.dir)
    /\ ClearedSelection
    /\ moving' = FALSE
    /\ moveOp' = NoMoveOp

\* a handler that takes the file moves for the whole operation
MoveResponseOk_SkipsDirs(r) ==
    /\ r \in moveReqs
    /\ MoveAccepted(srvParent, r.item, r.target)
    /\ srvParent' = [srvParent EXCEPT ![r.item] = r.target]
    /\ IF ~r.live \/ StillAwaited(r) # {}
       THEN /\ moveReqs' = moveReqs \ {r}
            /\ lastToast' = "none"
            /\ UNCHANGED <<selVars, moving, moveOp, listReqs>>
       ELSE BulkMoveDone(r)
    /\ UNCHANGED <<navVars, listingVars, deleting, delReq, metaReqs>>
    /\ UNCHANGED extVars

\* a move request is answered ok: the backend has moved the item
MoveResponseOk(r) ==
    /\ r \in moveReqs
    /\ MoveAccepted(srvParent, r.item, r.target)
    /\ srvParent' = [srvParent EXCEPT ![r.item] = r.target]
    /\ IF ~r.live \/ StillAwaited(r) # {}
       THEN \* nobody waits for it, or Promise.all waits for more
            /\ moveReqs' = moveReqs \ {r}
            /\ lastToast' = "none"
            /\ UNCHANGED <<selVars, moving, moveOp, listReqs>>
       ELSE IF moveOp.phase = "files" /\ Len(moveOp.dirIds) > 0
       THEN \* the first Promise.all is fulfilled: issue the directory moves
            /\ moveReqs' = (moveReqs \ {r}) \cup MoveRequests(moveOp.dirIds, moveOp.target)
            /\ moveOp' = [moveOp EXCEPT !.phase = "dirs"]
            /\ lastToast' = "none"
            /\ UNCHANGED <<selVars, moving, listReqs>>
       ELSE BulkMoveDone(r)
    /\ UNCHANGED <<navVars, listingVars, deleting, delReq, metaReqs>>
    /\ UNCHANGED extVars

\* a handleBulkMove without its finally block
MoveResponseFail_StaysBusy(r) ==
    /\ r \in moveReqs
    /\ IF r.live
       THEN /\ moveReqs' = {[q EXCEPT !.live = FALSE] : q \in moveReqs \ {r}}
            /\ lastToast' = "move_error"
            /\ moveOp' = NoMoveOp
            /\ UNCHANGED moving
       ELSE /\ moveReqs' = moveReqs \ {r}
            /\ lastToast' = "none"
            /\ UNCHANGED <<moving, moveOp>>
    /\ UNCHANGED <<navVars, listingVars, selVars, deleting, delReq,
                   metaReqs, listReqs, srvParent>>
    /\ UNCHANGED extVars

\* a move request fails: Promise.all rejects at once, handleBulkMove resumes
\* in its catch block and the requests still in flight are left to themselves
MoveResponseFail(r) ==
    /\ r \in moveReqs
    /\ IF r.live
       THEN /\ moveReqs' = {[q EXCEPT !.live = FALSE] : q \in moveReqs \ {r}}
            /\ lastToast' = "move_error"
            /\ moving' = FALSE
            /\ moveOp' = NoMoveOp
       ELSE /\ moveReqs' = moveReqs \ {r}
            /\ lastToast' = "none"
            /\ UNCHANGED <<moving, moveOp>>
    /\ UNCHANGED <<navVars, listingVars, selVars, deleting, delReq,
                   metaReqs, listReqs, srvParent>>
    /\ UNCHANGED extVars

----------------------------------------------------------------------------
(* FileTableRow / FileCard: clicks and touches on a row *)

\* handleNavigate(d) for a directory id
handleNavigate(d) == NavigateBack(d) \/ NavigateForward(d)

\* handleClick of the row of id: a click made with the mouse or the click
\* the browser dispatches after a touch
handleClick(id) ==
    /\ id \in files \cup directories
    /\ touching = NULL
    /\ IF longPressTriggeredRef[id]
       THEN /\ longPressTriggeredRef' = [longPressTriggeredRef EXCEPT ![id] = FALSE]
            /\ lastToast' = "none"
            /\ UNCHANGED <<navVars, listingVars, selVars, bulkVars, metaReqs, listReqs,
                           srvParent, moveDropdownOpen, modalVars, touching,
                           longPressTimerRef, uploadVars, rowDeleting>>
       ELSE IF id \in Dirs
       THEN handleNavigate(id)
       ELSE handleSelectionToggle(id, FALSE)

\* handleTouchStart of the row of id: a finger comes down on it
handleTouchStart(id) ==
    /\ id \in files \cup directories
    /\ touching = NULL
    /\ touching' = id
    /\ IF selectionMode
       THEN UNCHANGED <<longPressTimerRef, longPressTriggeredRef>>
       ELSE /\ longPressTriggeredRef' = [longPressTriggeredRef EXCEPT ![id] = FALSE]
            /\ longPressTimerRef' = [longPressTimerRef EXCEPT ![id] = TRUE]
    /\ lastToast' = "none"
    /\ UNCHANGED <<navVars, listingVars, selVars, bulkVars, metaReqs, listReqs, srvParent,
                   moveDropdownOpen, modalVars, uploadVars, rowDeleting>>

\* the timer of handleTouchStart runs out after 600 ms
LongPressTimer(id) ==
    /\ longPressTimerRef[id]
    /\ longPressTimerRef' = [longPressTimerRef EXCEPT ![id] = FALSE]
    /\ longPressTriggeredRef' = [longPressTriggeredRef EXCEPT ![id] = TRUE]
    /\ SelectionToggled(id, id \in Dirs)
    /\ lastToast' = "none"
    /\ UNCHANGED <<navVars, listingVars, bulkVars, metaReqs, listReqs, srvParent,
                   moveDropdownOpen, modalVars, touching, uploadVars, rowDeleting>>

\* handleTouchEnd of the row of id: the finger is lifted. Whether a click
\* follows is the browser's decision (none after a context-menu long press or
\* when the finger has moved); a click that follows is a handleClick step.
handleTouchEnd(id) ==
    /\ touching = id
    /\ touching' = NULL
    /\ longPressTimerRef' = [longPressTimerRef EXCEPT ![id] = FALSE]
    /\ lastToast' = "none"
    /\ UNCHANGED <<navVars, listingVars, selVars, bulkVars, metaReqs, listReqs, srvParent,
                   moveDropdownOpen, modalVars, longPressTriggeredRef, uploadVars, rowDeleting>>

\* handleDelete of the row of id, confirmed: the DELETE request leaves. The
\* button is rendered outside selection mode and disabled while deleting.
RowDeleteStart(id) ==
    /\ id \in files \cup directories
    /\ ~selectionMode
    /\ id \notin rowDeleting
    /\ Room
    /\ rowDeleting' = rowDeleting \cup {id}
    /\ lastToast' = "none"
    /\ UNCHANGED <<navVars, listingVars, selVars, bulkVars, metaReqs, listReqs, srvParent,
                   moveDropdownOpen, modalVars, touchVars, uploadVars>>

\* App handleDelete(id, isDirectory): the item is filtered out of the listing
RowDeleted(id) ==
    /\ files' = files \ {id}
    /\ directories' = directories \ {id}
    /\ UNCHANGED selVars

\* the DELETE request is answered ok: the backend has deleted the item, and a
\* directory with all its contents
RowDeleteOk(id) ==
    /\ id \in rowDeleting
    /\ Exists(srvParent, id)
    /\ srvParent' = AfterBulkDelete(srvParent, {id} \cap Files, {id} \cap Dirs)
    /\ rowDeleting' = rowDeleting \ {id}
    /\ lastToast' = "row_delete_success"
    /\ RowDeleted(id)
    /\ Unmounted((files \cup directories) \ {id})
    /\ UNCHANGED <<navVars, bulkVars, metaReqs, listReqs,
                   moveDropdownOpen, modalVars, uploadVars>>

\* the DELETE request fails
RowDeleteFail(id) ==
    /\ id \in rowDeleting
    /\ rowDeleting' = rowDeleting \ {id}
    /\ lastToast' = "row_delete_error"
    /\ UNCHANGED <<navVars, listingVars, selVars, bulkVars, metaReqs, listReqs, srvParent,
                   moveDropdownOpen, modalVars, touchVars, uploadVars>>

----------------------------------------------------------------------------
(* NewFolderModal *)

Repeat(c, n) == [i \in 1..n |-> c]

\* the values the name input is given: no, one, MaxNameLen and MaxNameLen + 1
\* visible characters, with and without a blank on either side
NameInputs ==
    {Repeat(" ", i) \o Repeat("a", n) \o Repeat(" ", j) :
        i \in 0..1, j \in 0..1, n \in {0, 1, MaxNameLen, MaxNameLen + 1}}

RECURSIVE TrimStart(_)
TrimStart(s) == IF s # <<>> /\ Head(s) = " " THEN TrimStart(Tail(s)) ELSE s

RECURSIVE TrimEnd(_)
TrimEnd(s) ==
    IF s # <<>> /\ s[Len(s)] = " " THEN TrimEnd(SubSeq(s, 1, Len(s) - 1)) ELSE s

\* a trim that returns its argument
trim_Identity(s) == s

\* String.prototype.trim
trim(s) == TrimEnd(TrimStart(s))

\* the sidebar's New Folder button; the modal's effect on isOpen empties the input
OpenNewFolderModal ==
    /\ ~isNewFolderModalOpen
    /\ isNewFolderModalOpen' = TRUE
    /\ folderName' = <<>>
    /\ lastToast' = "none"
    /\ UNCHANGED <<navVars, listingVars, selVars, bulkVars, metaReqs, listReqs, srvParent,
                   creating, createReqs, createdNames, moveDropdownOpen, touchVars, uploadVars, rowDeleting>>

\* onClose: Cancel, the X button, Escape in the input; all disabled while creating
CloseNewFolderModal ==
    /\ isNewFolderModalOpen
    /\ ~creating
    /\ isNewFolderModalOpen' = FALSE
    /\ lastToast' = "none"
    /\ UNCHANGED <<navVars, listingVars, selVars, bulkVars, metaReqs, listReqs, srvParent,
                   folderName, creating, createReqs, createdNames, moveDropdownOpen,
                   touchVars, uploadVars, rowDeleting>>

\* onChange of the name input
SetFolderName(v) ==
    /\ isNewFolderModalOpen
    /\ ~creating
    /\ folderName' = v
    /\ lastToast' = "none"
    /\ UNCHANGED <<navVars, listingVars, selVars, bulkVars, metaReqs, listReqs, srvParent,
                   isNewFolderModalOpen, creating, createReqs, createdNames,
                   moveDropdownOpen, touchVars, uploadVars, rowDeleting>>

\* handleSubmit up to its await, called with whatever the input holds
handleSubmit ==
    /\ isNewFolderModalOpen
    /\ ~creating
    /\ IF trim(folderName) = <<>>
       THEN /\ lastToast' = "name_empty"
            /\ UNCHANGED <<creating, createReqs>>
       ELSE IF Len(trim(folderName)) > MaxNameLen
       THEN /\ lastToast' = "name_too_long"
            /\ UNCHANGED <<creating, createReqs>>
       ELSE /\ Room
            /\ creating' = TRUE
            /\ createReqs' = createReqs \cup
                  {[name |-> trim(folderName), parent |-> currentDirectoryId]}
            /\ lastToast' = "none"
    /\ UNCHANGED <<navVars, listingVars, selVars, bulkVars, metaReqs, listReqs, srvParent,
                   isNewFolderModalOpen, folderName, createdNames, moveDropdownOpen,
                   touchVars, uploadVars, rowDeleting>>

\* handleSubmit resumes with the created directory: toast, onSuccess (the
\* fetchFiles() of the render that submitted), onClose, finally
CreateResponseOk(r) ==
    /\ r \in createReqs
    /\ createReqs' = createReqs \ {r}
    /\ createdNames' = createdNames \cup {r.name}
    /\ lastToast' = "create_success"
    /\ listReqs' = fetchFiles(listReqs, r.parent)
    /\ isNewFolderModalOpen' = FALSE
    /\ creating' = FALSE
    /\ UNCHANGED <<navVars, listingVars, selVars, bulkVars, metaReqs, srvParent,
                   folderName, moveDropdownOpen, touchVars, uploadVars, rowDeleting>>

\* handleSubmit resumes in its catch block, then finally
CreateResponseFail(r) ==
    /\ r \in createReqs
    /\ createReqs' = createReqs \ {r}
    /\ lastToast' = "create_error"
    /\ creating' = FALSE
    /\ UNCHANGED <<navVars, listingVars, selVars, bulkVars, metaReqs, listReqs, srvParent,
                   isNewFolderModalOpen, folderName, createdNames, moveDropdownOpen,
                   touchVars, uploadVars, rowDeleting>>

----------------------------------------------------------------------------
(* FileUpload *)

CONCURRENCY == 3

\* the files the user can pick, by name, and the lists a drop or the file
\* dialog delivers
UploadNames == {"a", "b", "c", "d"}
DropInputs == {<<"a">>, <<"a", "b">>, <<"c", "d">>}

Min(a, b) == IF a < b THEN a ELSE b

\* mergeFiles(existing, incoming)
mergeFiles(existing, incoming) ==
    existing \o SelectSeq(incoming, LAMBDA n : n \notin Range(existing))

restOfApp == <<navVars, listingVars, selVars, bulkVars, metaReqs, srvParent,
               moveDropdownOpen, modalVars, touchVars, rowDeleting>>

\* handleDrop: the drop zone takes files at any time
handleDrop(incoming) ==
    /\ selectedFiles' = mergeFiles(selectedFiles, incoming)
    /\ lastToast' = "none"
    /\ UNCHANGED <<uploading, uploadRun, uploadReqs, listReqs>>
    /\ UNCHANGED restOfApp

\* handleFileChange: the file input is disabled while uploading
handleFileChange(incoming) ==
    /\ ~uploading
    /\ selectedFiles' = mergeFiles(selectedFiles, incoming)
    /\ lastToast' = "none"
    /\ UNCHANGED <<uploading, uploadRun, uploadReqs, listReqs>>
    /\ UNCHANGED restOfApp

\* handleRemoveFile(index), index 1-based; the button is disabled while uploading
handleRemoveFile(index) ==
    /\ ~uploading
    /\ index \in 1..Len(selectedFiles)
    /\ selectedFiles' = SubSeq(selectedFiles, 1, index - 1)
                          \o SubSeq(selectedFiles, index + 1, Len(selectedFiles))
    /\ lastToast' = "none"
    /\ UNCHANGED <<uploading, uploadRun, uploadReqs, listReqs>>
    /\ UNCHANGED restOfApp

\* one turn of the loop of handleUpload up to its await: the requests of the
\* batch selectedFiles.slice(i, i + CONCURRENCY) leave
IssueBatch(run) ==
    LET batch == SubSeq(run.files, run.i + 1, Min(run.i + CONCURRENCY, Len(run.files)))
    IN /\ uploadReqs' = {[name |-> n, parent |-> run.dir] : n \in Range(batch)}
       /\ uploadRun' = [run EXCEPT !.i = run.i + CONCURRENCY, !.issued = run.issued \o batch]

\* handleUpload up to its first await
handleUpload ==
    /\ IF selectedFiles = <<>>
       THEN /\ lastToast' = "upload_none"
            /\ UNCHANGED <<uploading, uploadRun, uploadReqs>>
       ELSE /\ ~uploading
            /\ Room
            /\ uploading' = TRUE
            /\ IssueBatch([active |-> TRUE, files |-> selectedFiles, i |-> 0,
                           completed |-> 0, failed |-> 0, issued |-> <<>>,
                           dir |-> currentDirectoryId])
            /\ lastToast' = "none"
    /\ UNCHANGED <<selectedFiles, listReqs>>
    /\ UNCHANGED restOfApp

\* a run that refreshes the listing whatever the outcome
UploadFinished_AlwaysRefreshes(run) ==
    /\ listReqs' = fetchFiles(listReqs, run.dir)
    /\ lastToast' = IF run.failed = 0 THEN "upload_success"
                    ELSE IF run.completed = 0 THEN "upload_all_failed"
                    ELSE "upload_partial"
    /\ selectedFiles' = <<>>
    /\ uploading' = FALSE
    /\ uploadRun' = NoUploadRun
    /\ uploadReqs' = {}

\* handleUpload after its loop: onUploadSuccess, the toast, the queue is
\* emptied and uploading reset
UploadFinished(run) ==
    /\ listReqs' = IF run.completed > 0 THEN fetchFiles(listReqs, run.dir) ELSE listReqs
    /\ lastToast' = IF run.failed = 0 THEN "upload_success"
                    ELSE IF run.completed = 0 THEN "upload_all_failed"
                    ELSE "upload_partial"
    /\ selectedFiles' = <<>>
    /\ uploading' = FALSE
    /\ uploadRun' = NoUploadRun
    /\ uploadReqs' = {}

\* an upload request settles, fulfilled (ok) or rejected: Promise.allSettled
\* resumes handleUpload when it was the last of its batch
UploadSettled(q, ok) ==
    /\ q \in uploadReqs
    /\ LET run == [uploadRun EXCEPT
                      !.completed = IF ok THEN @ + 1 ELSE @,
                      !.failed = IF ok THEN @ ELSE @ + 1]
       IN IF uploadReqs \ {q} # {}
          THEN /\ uploadReqs' = uploadReqs \ {q}
               /\ uploadRun' = run
               /\ lastToast' = "none"
               /\ UNCHANGED <<selectedFiles, uploading, listReqs>>
          ELSE IF run.i < Len(run.files)
          THEN /\ IssueBatch(run)
               /\ lastToast' = "none"
               /\ UNCHANGED <<selectedFiles, uploading, listReqs>>
          ELSE UploadFinished(run)
    /\ UNCHANGED restOfApp

UploadFulfilled(q) == UploadSettled(q, TRUE)
UploadRejected(q) == UploadSettled(q, FALSE)

----------------------------------------------------------------------------

Next ==
    \/ \E r \in BagToSet(listReqs) : ListingResponseOk(r)
    \/ \E r \in BagToSet(listReqs) : ListingResponseFail(r)
    \/ NavigateRoot
    \/ \E d \in Dirs : NavigateBack(d)
    \/ \E d \in Dirs : NavigateForward(d)
    \/ \E r \in BagToSet(metaReqs) : MetaResponseOk(r)
    \/ \E r \in BagToSet(metaReqs) : MetaResponseFail(r)
    \/ \E id \in Items : handleSelectionToggle(id, id \in Dirs)
    \/ handleClearSelection
    \/ \E t \in Dirs : BulkMoveStart(t)
    \/ \E r \in moveReqs : MoveResponseOk(r)
    \/ \E r \in moveReqs : MoveResponseFail(r)
    \/ BulkDeleteDeclined
    \/ BulkDeleteStart
    \/ BulkDeleteOk
    \/ BulkDeleteFail

Spec == Init /\ [][Next]_vars

\* Navigation alone: the gestures and responses that read or write the
\* current directory, the breadcrumb and the listing
NextNavigation ==
    \/ \E r \in BagToSet(listReqs) : ListingResponseOk(r)
    \/ \E r \in BagToSet(listReqs) : ListingResponseFail(r)
    \/ NavigateRoot
    \/ \E d \in Dirs : NavigateBack(d)
    \/ \E d \in Dirs : NavigateForward(d)
    \/ \E r \in BagToSet(metaReqs) : MetaResponseOk(r)
    \/ \E r \in BagToSet(metaReqs) : MetaResponseFail(r)

SpecNavigation == Init /\ [][NextNavigation]_vars

\* Selection and the bulk operations alone, with the session staying in the
\* directory it starts in
NextSelection ==
    \/ \E r \in BagToSet(listReqs) : ListingResponseOk(r)
    \/ \E r \in BagToSet(listReqs) : ListingResponseFail(r)
    \/ \E id \in Items : handleSelectionToggle(id, id \in Dirs)
    \/ handleClearSelection
    \/ \E t \in Dirs : BulkMoveStart(t)
    \/ \E r \in moveReqs : MoveResponseOk(r)
    \/ \E r \in moveReqs : MoveResponseFail(r)
    \/ BulkDeleteDeclined
    \/ BulkDeleteStart
    \/ BulkDeleteOk
    \/ BulkDeleteFail

SpecSelection == Init /\ [][NextSelection]_vars

\* Navigation together with the selection gestures, no bulk operation
NextBrowse ==
    \/ NextNavigation
    \/ \E id \in Items : handleSelectionToggle(id, id \in Dirs)
    \/ handleClearSelection

SpecBrowse == Init /\ [][NextBrowse]_vars

\* The toolbar's handlers called as functions: as NextSelection, with
\* handleBulkMove given any folder of the listing as its target
NextToolbarCalls ==
    \/ \E r \in BagToSet(listReqs) : ListingResponseOk(r)
    \/ \E r \in BagToSet(listReqs) : ListingResponseFail(r)
    \/ \E id \in Items : handleSelectionToggle(id, id \in Dirs)
    \/ handleClearSelection
    \/ \E t \in Dirs : BulkMoveCall(t)
    \/ \E r \in moveReqs : MoveResponseOk(r)
    \/ \E r \in moveReqs : MoveResponseFail(r)
    \/ BulkDeleteDeclined
    \/ BulkDeleteStart
    \/ BulkDeleteOk
    \/ BulkDeleteFail

SpecToolbarCalls == Init /\ [][NextToolbarCalls]_vars

\* Selection and the bulk operations with the desktop toolbar's dropdown
NextToolbar ==
    \/ \E r \in BagToSet(listReqs) : ListingResponseOk(r)
    \/ \E r \in BagToSet(listReqs) : ListingResponseFail(r)
    \/ \E id \in Items : handleSelectionToggle(id, id \in Dirs)
    \/ handleClearSelection
    \/ ToggleMoveDropdown
    \/ handleClickOutside
    \/ \E t \in Dirs : DropdownMoveClick(t)
    \/ \E t \in Dirs : BulkMoveStart(t)
    \/ \E r \in moveReqs : MoveResponseOk(r)
    \/ \E r \in moveReqs : MoveResponseFail(r)
    \/ BulkDeleteDeclined
    \/ BulkDeleteStart
    \/ BulkDeleteOk
    \/ BulkDeleteFail

SpecToolbar == Init /\ [][NextToolbar]_vars

\* The New Folder modal, with the session staying in the directory it starts in
NextModal ==
    \/ \E r \in BagToSet(listReqs) : ListingResponseOk(r)
    \/ \E r \in BagToSet(listReqs) : ListingResponseFail(r)
    \/ OpenNewFolderModal
    \/ CloseNewFolderModal
    \/ \E v \in NameInputs : SetFolderName(v)
    \/ handleSubmit
    \/ \E r \in createReqs : CreateResponseOk(r)
    \/ \E r \in createReqs : CreateResponseFail(r)

SpecModal == Init /\ [][NextModal]_vars

\* The rows under mouse and finger: row clicks, checkboxes, touches, the
\* breadcrumb, and the responses these wait for
NextRows ==
    \/ \E r \in BagToSet(listReqs) : ListingResponseOk(r)
    \/ \E r \in BagToSet(listReqs) : ListingResponseFail(r)
    \/ NavigateRoot
    \/ \E d \in Dirs : NavigateBack(d)
    \/ \E r \in BagToSet(metaReqs) : MetaResponseOk(r)
    \/ \E r \in BagToSet(metaReqs) : MetaResponseFail(r)
    \/ \E id \in Items : handleClick(id)
    \/ \E id \in Items : handleSelectionToggle(id, id \in Dirs)
    \/ \E id \in Items : handleTouchStart(id)
    \/ \E id \in Items : LongPressTimer(id)
    \/ \E id \in Items : handleTouchEnd(id)
    \/ \E id \in Items : RowDeleteStart(id)
    \/ \E id \in Items : RowDeleteOk(id)
    \/ \E id \in Items : RowDeleteFail(id)

SpecRows == Init /\ [][NextRows]_vars

\* The toolbar when every bulk request in flight is answered in the end, ok
\* or not
BulkDeleteResponse == BulkDeleteOk \/ BulkDeleteFail
MoveResponse == \E r \in moveReqs : MoveResponseOk(r) \/ MoveResponseFail(r)

SpecToolbarFair ==
    Init /\ [][NextToolbar]_vars /\ WF_vars(BulkDeleteResponse) /\ WF_vars(MoveResponse)

\* The upload panel, with the navigation that can move the session to
\* another directory while a run is suspended
NextUpload ==
    \/ \E r \in BagToSet(listReqs) : ListingResponseOk(r)
    \/ \E r \in BagToSet(listReqs) : ListingResponseFail(r)
    \/ NavigateRoot
    \/ \E d \in Dirs : NavigateForward(d)
    \/ \E r \in BagToSet(metaReqs) : MetaResponseOk(r)
    \/ \E r \in BagToSet(metaReqs) : MetaResponseFail(r)
    \/ \E incoming \in DropInputs : handleFileChange(incoming)
    \/ \E incoming \in DropInputs : handleDrop(incoming)
    \/ \E index \in 1..Cardinality(UploadNames) : handleRemoveFile(index)
    \/ handleUpload
    \/ \E q \in uploadReqs : UploadFulfilled(q)
    \/ \E q \in uploadReqs : UploadRejected(q)

SpecUpload == Init /\ [][NextUpload]_vars

----------------------------------------------------------------------------
(* Properties *)

\* the ids of a breadcrumb path, in order
IdsOf(path) == [i \in 1..Len(path) |-> path[i].id]

\* the directories from just below the root down to d, by the backend's parents
RECURSIVE ChainTo(_, _, _)
ChainTo(par, d, fuel) ==
    IF d \notin Dirs \/ fuel = 0 THEN <<>>
    ELSE Append(ChainTo(par, par[d], fuel - 1), d)

\* a step in which handleBulkDelete / handleBulkMove runs its finally block
BulkDeleteCompletes == deleting /\ ~deleting'
BulkMoveCompletes == moving /\ ~moving'

\* a step that calls fetchFiles
ListingFetchIssued == BagCardinality(listReqs') = BagCardinality(listReqs) + 1

\* C1: a listing response for a directory that is no longer the current one
\* is never written into the displayed listing (last navigate() wins).
C1_StaleListingDiscarded ==
    [][\A r \in BagToSet(listReqs) :
          (ListingResponseOk(r) /\ r.dir # currentDirectoryId) => UNCHANGED listingVars]_vars

\* C2: the metadata response of a forward navigate() that a later navigate()
\* has superseded is discarded: currentDirectoryId and breadcrumbPath keep
\* the values the later navigate() set.
C2_StaleNavigateDiscarded ==
    [][\A r \in BagToSet(metaReqs) :
          (MetaResponseOk(r) /\ r.superseded) => UNCHANGED navVars]_vars

\* C3: breadcrumbPath is exactly the chain of ancestors of the current
\* directory followed by the current directory, with no duplicates and no
\* gaps (stated while the backend tree is the one the session started with).
C3_BreadcrumbIsAncestorChain ==
    srvParent = InitParent =>
        IdsOf(breadcrumbPath) = ChainTo(srvParent, currentDirectoryId, Cardinality(Dirs))

\* C4: currentDirectoryId is null exactly when breadcrumbPath is empty, and
\* otherwise the last breadcrumb entry's id is currentDirectoryId.
C4_LastCrumbIsCurrent ==
    /\ (currentDirectoryId = NULL) <=> (breadcrumbPath = <<>>)
    /\ currentDirectoryId # NULL =>
          breadcrumbPath[Len(breadcrumbPath)].id = currentDirectoryId

\* C4 witness: a forward navigation has been applied while an earlier one,
\* superseded by it, is still in flight
C4_Witness ==
    /\ currentDirectoryId # NULL
    /\ breadcrumbPath # <<>>
    /\ \E r \in BagToSet(metaReqs) : r.superseded

\* C5: every step that changes the current directory leaves the selection
\* empty and selection mode off.
C5_NavigateClearsSelection ==
    [][currentDirectoryId' # currentDirectoryId =>
          (~selectionMode' /\ selectedFileIds' = <<>> /\ selectedDirectoryIds' = <<>>)]_vars

\* C6: selectionMode is true exactly when at least one id is selected in
\* either set, after every toggle, clear and bulk step.
C6_SelectionModeIffSelected == selectionMode <=> (totalSelected > 0)

\* C6 witness: ids of both kinds are selected while a bulk move is suspended
C6_Witness ==
    /\ Len(selectedFileIds) > 0
    /\ Len(selectedDirectoryIds) > 0
    /\ selectionMode
    /\ moving

\* C7: when a bulkDelete or bulkMove completes, succeeded or failed, the
\* selection is empty and selection mode is off.
C7_BulkCompletionClearsSelection ==
    [][(BulkDeleteCompletes \/ BulkMoveCompletes) =>
          (~selectionMode' /\ selectedFileIds' = <<>> /\ selectedDirectoryIds' = <<>>)]_vars

\* C8: when the bulk-delete request is rejected, the selection and selection
\* mode are left as they are, no listing fetch is issued and an error toast
\* is raised.
C8_DeleteFailureKeepsSelection ==
    [][(BulkDeleteCompletes /\ lastToast' # "delete_success") =>
          /\ UNCHANGED selVars
          /\ UNCHANGED listReqs
          /\ UNCHANGED listingVars
          /\ lastToast' = "delete_error"]_vars

\* C8 witness: a bulk delete has just failed and the selection is still there
C8_Witness ==
    /\ lastToast = "delete_error"
    /\ ~deleting
    /\ totalSelected > 0
    /\ selectionMode

\* C9: when a bulk delete succeeds the selection is cleared and a listing
\* fetch is issued for the directory that is current at that moment.
C9_DeleteSuccessRefreshesCurrent ==
    [][(BulkDeleteCompletes /\ lastToast' = "delete_success") =>
          /\ ~selectionMode' /\ selectedFileIds' = <<>> /\ selectedDirectoryIds' = <<>>
          /\ listReqs' = fetchFiles(listReqs, currentDirectoryId)]_vars

\* C10: when a bulk move completes, on any outcome, a listing fetch is issued.
C10_MoveAlwaysRefreshes ==
    [][BulkMoveCompletes => ListingFetchIssued]_vars

\* the items the suspended handleBulkMove has issued a move request for
Requested(op) ==
    IF op.phase = "files" THEN Range(op.fileIds)
    ELSE Range(op.fileIds) \cup Range(op.dirIds)

\* the items a set of move requests is about
ItemsOf(reqs) == {q.item : q \in reqs}

\* a step in which a handleNavigate call applies its state update
NavigateApplied ==
    \/ NavigateRoot
    \/ \E d \in Dirs : NavigateBack(d)
    \/ \E r \in BagToSet(metaReqs) : MetaResponseOk(r)

NoDuplicates(s) == \A i, j \in 1..Len(s) : s[i] = s[j] => i = j

\* C11: a call of the move handler whose target is one of the selected
\* directories is rejected: it issues no move request and does not start a
\* move.
C11_SelfMoveRejected ==
    [][\A t \in Range(selectedDirectoryIds) :
          BulkMoveCall(t) => (moveReqs' = moveReqs /\ ~moving')]_vars

C13_ForwardNavigateAtomic ==
    [][\A r \in BagToSet(metaReqs) :
          metaReqs' = DropReq(metaReqs, r) =>
             \/ /\ lastToast' = "navigate_error"
                /\ UNCHANGED navVars
             \/ /\ lastToast' # "navigate_error"
                /\ breadcrumbPath' =
                      Append(r.path, [id |-> r.target, name |-> NameOf(r.target)])
                /\ currentDirectoryId' = r.target]_vars

\* C13 witness: a forward navigation has failed after another one was applied
C13_Witness ==
    /\ lastToast = "navigate_error"
    /\ currentDirectoryId # NULL
    /\ breadcrumbPath =
          <<[id |-> currentDirectoryId, name |-> NameOf(currentDirectoryId)]>>

\* C14: navigate(X) with X at a position k of the breadcrumb leaves exactly
\* the entries up to and including position k, unchanged and in order, makes
\* X current and issues no metadata request.
C14_AncestorNavigateTruncates ==
    [][\A d \in Dirs :
          NavigateBack(d) =>
             /\ \E k \in 1..Len(breadcrumbPath) :
                   /\ breadcrumbPath[k].id = d
                   /\ breadcrumbPath' = SubSeq(breadcrumbPath, 1, k)
             /\ currentDirectoryId' = d
             /\ BagCardinality(metaReqs') = BagCardinality(metaReqs)]_vars

\* C14 witness: the session is back at the first entry of a two-entry path,
\* the listing requests of the deeper directory and of this one in flight
C14_Witness ==
    /\ Len(breadcrumbPath) = 1
    /\ currentDirectoryId = breadcrumbPath[1].id
    /\ metaReqs = EmptyBag
    /\ \E d \in Dirs \ {currentDirectoryId} :
          listReqs = SetToBag({[dir |-> d], [dir |-> currentDirectoryId]})

\* C15: navigate(null) from any state leaves the current directory null and
\* the breadcrumb empty, and issues no metadata request.
C15_NavigateRootResets ==
    [][NavigateRoot =>
          /\ currentDirectoryId' = NULL
          /\ breadcrumbPath' = <<>>
          /\ BagCardinality(metaReqs') = BagCardinality(metaReqs)]_vars

\* C15 witness: back at the root from a directory, the root listing being
\* fetched again over the listing on display
C15_Witness ==
    /\ currentDirectoryId = NULL
    /\ breadcrumbPath = <<>>
    /\ BagIn([dir |-> NULL], listReqs)
    /\ directories # {}

\* C16: every navigate() whose state update is applied, the already current
\* directory as its target included, issues a listing fetch for the resulting
\* current directory, and a listing response replaces the listing.
C16_EveryNavigateFetches ==
    [][/\ NavigateApplied => listReqs' = fetchFiles(listReqs, currentDirectoryId')
       /\ \A r \in BagToSet(listReqs) :
             ListingResponseOk(r) =>
                /\ files' = ListedFiles(srvParent, r.dir)
                /\ directories' = ListedDirectories(srvParent, r.dir)]_vars

\* C16 amended: a navigate() whose state update changes the current directory
\* issues one listing fetch for the new current directory, one that leaves it
\* unchanged issues none, and a listing response replaces the listing.
C16_NavigateToOtherFetches ==
    [][/\ NavigateApplied =>
             IF currentDirectoryId' # currentDirectoryId
             THEN listReqs' = fetchFiles(listReqs, currentDirectoryId')
             ELSE UNCHANGED listReqs
       /\ \A r \in BagToSet(listReqs) :
             ListingResponseOk(r) =>
                /\ files' = ListedFiles(srvParent, r.dir)
                /\ directories' = ListedDirectories(srvParent, r.dir)]_vars

\* C16 witness: the listing of an empty directory has replaced the root's
C16_Witness ==
    /\ currentDirectoryId # NULL
    /\ files = {}
    /\ directories = {}
    /\ listReqs = EmptyBag

\* C17: a failed listing fetch changes neither the current directory nor the
\* breadcrumb, and raises the load error.
C17_ListingFailureKeepsNavigation ==
    [][(\E r \in BagToSet(listReqs) : ListingResponseFail(r)) =>
          (UNCHANGED navVars /\ lastToast' = "load_error")]_vars

\* C17 witness: the listing fetch of a directory navigated into has failed
C17_Witness ==
    /\ lastToast = "load_error"
    /\ currentDirectoryId # NULL
    /\ breadcrumbPath # <<>>
    /\ listReqs = EmptyBag

\* C18: a toggle of id flips the membership of id in the set of its kind,
\* leaves every other id of that set and the whole other set as they are,
\* creates no duplicate, and the same toggle applied once more gives back
\* both sets and selectionMode as they were before the first.
C18_ToggleFlipsMembership ==
    [][\A id \in Items :
          handleSelectionToggle(id, id \in Dirs) =>
             LET own == IF id \in Dirs THEN selectedDirectoryIds ELSE selectedFileIds
                 ownAfter == IF id \in Dirs THEN selectedDirectoryIds' ELSE selectedFileIds'
                 other == IF id \in Dirs THEN selectedFileIds ELSE selectedDirectoryIds
                 otherAfter == IF id \in Dirs THEN selectedFileIds' ELSE selectedDirectoryIds'
                 again == newSelection(ownAfter, id)
             IN  /\ (id \in Range(ownAfter)) <=> (id \notin Range(own))
                 /\ filterOut(ownAfter, id) = filterOut(own, id)
                 /\ NoDuplicates(ownAfter)
                 /\ otherAfter = other
                 /\ Range(again) = Range(own)
                 /\ NoDuplicates(again)
                 /\ (~autoExit(again, otherAfter)) = selectionMode]_vars

\* C18 witness: ids of both kinds selected, the folders in the order a
\* toggle off and on again leaves them in
C18_Witness ==
    /\ selectedDirectoryIds = <<"d2", "d1">>
    /\ selectedFileIds = <<"f1">>
    /\ selectionMode

\* C19: clearSelection leaves both selection arrays empty and selectionMode
\* false, and changes neither the current directory nor the breadcrumb.
C19_ClearSelectionResets ==
    [][handleClearSelection =>
          /\ selectedFileIds' = <<>>
          /\ selectedDirectoryIds' = <<>>
          /\ selectionMode' = FALSE
          /\ UNCHANGED navVars]_vars

\* C19 witness: inside a directory, with ids of both kinds selected and the
\* toolbar's Cancel button enabled
C19_Witness ==
    /\ currentDirectoryId # NULL
    /\ breadcrumbPath # <<>>
    /\ Len(selectedFileIds) > 0
    /\ Len(selectedDirectoryIds) > 0
    /\ ~isBusy

\* C20: a confirmed bulk delete puts exactly one request in flight, carrying
\* all the selected file ids and all the selected directory ids; a declined
\* one puts none in flight.
C20_OneDeleteRequest ==
    [][/\ BulkDeleteStart =>
             /\ InFlight' = InFlight + 1
             /\ delReq'.active
             /\ delReq'.fileIds = selectedFileIds
             /\ delReq'.dirIds = selectedDirectoryIds
             /\ UNCHANGED <<moveReqs, srvParent>>
       /\ BulkDeleteDeclined =>
             /\ InFlight' = InFlight
             /\ UNCHANGED <<delReq, deleting, moveReqs, srvParent>>]_vars

\* C20 witness: one delete request in flight with ids of both kinds
C20_Witness ==
    /\ delReq.active
    /\ deleting
    /\ Len(delReq.fileIds) > 0
    /\ Len(delReq.dirIds) > 0
    /\ moveReqs = {}

\* C21: at most one bulk operation is outstanding at any time: a bulk delete
\* and a bulk move are never in progress together.
C21_OneBulkOperation == ~(deleting /\ moving)

\* a name with a visible character and of at most MaxNameLen characters
SendableName(n) == (\E i \in 1..Len(n) : n[i] # " ") /\ Len(n) <= MaxNameLen

\* an input that is blank, or whose stretch from its first to its last
\* visible character is longer than MaxNameLen
RejectedInput(v) ==
    \/ \A i \in 1..Len(v) : v[i] = " "
    \/ \E i, j \in 1..Len(v) : v[i] # " " /\ v[j] # " " /\ j - i + 1 > MaxNameLen

\* C22: a create-directory request never carries a name that is blank or
\* longer than 255 characters; a submit of such an input raises an error at
\* once, sends nothing, leaves the modal open and the listing unchanged.
C22_InvalidNameNeverSent ==
    [][/\ \A r \in createReqs' : SendableName(r.name)
       /\ \A n \in createdNames' : SendableName(n)
       /\ (handleSubmit /\ RejectedInput(folderName)) =>
             /\ lastToast' \in {"name_empty", "name_too_long"}
             /\ isNewFolderModalOpen'
             /\ UNCHANGED <<createReqs, creating, listReqs, listingVars>>]_vars

\* C22 witness: the modal is still open after an over-long name was refused
C22_Witness ==
    /\ lastToast = "name_too_long"
    /\ isNewFolderModalOpen
    /\ Len(folderName) > MaxNameLen
    /\ createReqs = {}

\* C23: while selection mode is active, a click on a row, file or directory,
\* toggles that item and does nothing else: it neither changes the current
\* directory or the breadcrumb nor requests directory metadata.
C23_ClickInSelectionModeToggles ==
    [][\A id \in Items :
          (handleClick(id) /\ selectionMode /\ ~longPressTriggeredRef[id]) =>
             /\ UNCHANGED <<navVars, metaReqs>>
             /\ SelectionToggled(id, id \in Dirs)]_vars

\* C26: the long-press timer toggles its item once and navigates nowhere; a
\* touch that ends toggles nothing by ending; a click on a row whose flag is
\* set changes neither selection nor navigation; and when a new touch begins
\* on a row, no flag of an earlier long press is left to swallow its click.
C26_LongPressTogglesOnce ==
    [][\A id \in Items :
          /\ LongPressTimer(id) =>
                /\ SelectionToggled(id, id \in Dirs)
                /\ ~longPressTimerRef'[id]
                /\ UNCHANGED <<navVars, metaReqs>>
          /\ handleTouchEnd(id) => UNCHANGED <<selVars, navVars, metaReqs>>
          /\ (handleClick(id) /\ longPressTriggeredRef[id]) =>
                UNCHANGED <<selVars, navVars, metaReqs>>
          /\ handleTouchStart(id) => ~longPressTriggeredRef'[id]]_vars

\* the selection is empty after the step
SelectionEmptied == ~selectionMode' /\ selectedFileIds' = <<>> /\ selectedDirectoryIds' = <<>>

\* the step sends no listing request for directory dir
NoFetchFor(dir) == CopiesIn([dir |-> dir], listReqs') <= CopiesIn([dir |-> dir], listReqs)

\* C24: when a bulk delete or a bulk move succeeds after the user has left
\* the directory it was started in, the selection is cleared but no listing
\* of the directory it was started in is fetched to replace the one on display.
C24_RefreshDiscardedAfterNavigate ==
    [][/\ (BulkDeleteCompletes /\ lastToast' = "delete_success"
             /\ delReq.dir # currentDirectoryId) =>
                (SelectionEmptied /\ NoFetchFor(delReq.dir))
       /\ (BulkMoveCompletes /\ lastToast' = "move_success"
             /\ moveOp.dir # currentDirectoryId) =>
                (SelectionEmptied /\ NoFetchFor(moveOp.dir))]_vars

\* C25: every selected file id is a file of the displayed listing and every
\* selected directory id is a directory of the displayed listing.
C25_SelectionWithinListing ==
    /\ Range(selectedFileIds) \subseteq files
    /\ Range(selectedDirectoryIds) \subseteq directories

\* C27: when every request is answered in the end, a toolbar that is busy
\* with a bulk delete or a bulk move comes back to deleting = false and
\* moving = false, whether the requests succeed or fail.
C27_BulkEventuallyNotBusy == (deleting \/ moving) ~> (~deleting /\ ~moving)

\* C27 witness: a bulk move has failed at its directory stage, after the file
\* had been moved, and the toolbar is idle again
C27_Witness ==
    /\ ~deleting /\ ~moving
    /\ lastToast = "move_error"
    /\ \E f \in Files : srvParent[f] \in Dirs

\* C28: the ids of the breadcrumb entries are pairwise distinct in every
\* reachable state, whatever the order in which navigations and their
\* responses interleave.
C28_BreadcrumbIdsDistinct == NoDuplicates(IdsOf(breadcrumbPath))

\* C28 witness: the breadcrumb is two entries deep while a forward navigation
\* to one of its entries, started earlier, is still in flight
C28_Witness ==
    /\ Len(breadcrumbPath) = 2
    /\ \E r \in BagToSet(metaReqs) : r.target \in PathIds(breadcrumbPath)

\* the step in which handleUpload returns
UploadRunEnds == uploadRun.active /\ ~uploadRun'.active

\* how often name n occurs in the sequence s
Occurrences(s, n) == Cardinality({i \in 1..Len(s) : s[i] = n})

\* C29: at most 3 upload requests are in flight; the requests of a batch
\* leave only when no request of the batch before is in flight; every request
\* carries the directory that was current when the run started; and when the
\* run ends every file of the queue has had exactly one upload request.
C29_BatchedUploads ==
    [][/\ Cardinality(uploadReqs') <= 3
       /\ (uploadReqs' \ uploadReqs # {}) => (uploadReqs' \cap uploadReqs = {})
       /\ (uploadRun'.active /\ ~uploadRun.active) => uploadRun'.dir = currentDirectoryId
       /\ \A q \in uploadReqs' : q.parent = uploadRun'.dir
       /\ UploadRunEnds =>
             \A n \in Range(selectedFiles) : Occurrences(uploadRun.issued, n) = 1]_vars

\* C30: in the step that ends an upload run the queue is emptied and
\* uploading is reset; one listing fetch is issued when at least one upload
\* was fulfilled, and none when every upload was rejected.
C30_RunEndRefreshesOnce ==
    [][UploadRunEnds =>
          /\ selectedFiles' = <<>>
          /\ ~uploading'
          /\ IF uploadRun.completed > 0 \/ \E q \in uploadReqs : UploadFulfilled(q)
             THEN listReqs' = fetchFiles(listReqs, uploadRun.dir)
             ELSE UNCHANGED listReqs]_vars

\* C30 witness: a run has just ended with uploads fulfilled and uploads
\* rejected, and its listing fetch is for a directory the session has left
C30_Witness ==
    /\ lastToast = "upload_partial"
    /\ selectedFiles = <<>> /\ ~uploading /\ ~uploadRun.active
    /\ \E r \in BagToSet(listReqs) : r.dir # currentDirectoryId

====
